---- MODULE Spec2Model ----
(***************************************************************************)
(* A model of cluster/kmeans/kmeanspp_mp.cc: the loader (read_vectors),    *)
(* the KMeans engine (add_vector, execute and its private helpers) and the *)
(* result printing.                                                        *)
(*                                                                         *)
(* Numbers.  The program computes with doubles; the model computes with    *)
(* exact rationals (a numerator and a denominator), so rounding is not     *)
(* modelled.  Weights are counted in units of 10^5 and squared distances   *)
(* therefore in units of 10^10: LONG_DIST (10^15) is 10^5 such units.  The *)
(* algorithm is invariant under this scaling everywhere except at the      *)
(* comparison with LONG_DIST, which the scaling keeps exact.               *)
(*                                                                         *)
(* A size_t array slot is modelled as its SIZEOF_SIZE_T bytes (least       *)
(* significant first), because memset fills the slots byte by byte.        *)
(***************************************************************************)
EXTENDS Integers, Sequences, FiniteSets, TLC

VARIABLES
    pc,           \* position of main / execute
    argK,         \* atoi(argv[1])
    schedule,     \* how the OpenMP runtime hands out the loop iterations
    file,         \* the lines of the file argv[2] not read yet
    keymap,       \* read_vectors: feature name -> VecKey
    curkey,       \* read_vectors: next VecKey to hand out
    splited,      \* read_vectors: the fields split so far
    vectors_,     \* KMeans::vectors_
    labels_,      \* KMeans::labels_ : label -> index in vectors_
    added,        \* the label of each add_vector call, in call order (observer)
    centers_,     \* KMeans::centers_
    nclusters,    \* execute's argument (as converted to size_t)
    check,        \* choose_random_centers: indices already copied
    origin,       \* the index in vectors_ each center was copied from (observer)
    closest_dist, \* choose_smart_centers: closest_dist[]
    potential,    \* choose_smart_centers: potential
    assign,       \* execute: assign[]
    prev_assign,  \* execute: prev_assign[]
    iter,         \* execute: loop variable i
    todo,         \* assign_clusters: loop indices no thread has taken yet
    inflight,     \* assign_clusters: (i, min_idx) of the threads inside the body
    output,       \* lines printed on stdout
    calls         \* number of calls of assign_clusters so far (observer)

vars == <<pc, argK, schedule, file, keymap, curkey, splited, vectors_, labels_, added, centers_, nclusters,
          check, origin, closest_dist, potential, assign, prev_assign, iter, todo,
          inflight, output, calls>>

-----------------------------------------------------------------------------
(* Bounds of the model *)

\* longest input file (in lines), hence the largest dataset
MaxLines == 3
\* threads of the OpenMP team that may be inside the loop body at once
NumThreads == 2
\* the model's RAND_MAX: rand() returns 0..RandMax
RandMax == 3

(* Program constants *)

MAX_ITER == 10
EMPTY_KEY == 0
\* 10^15, in units of 10^10 (see the header)
LONG_DIST == 100000
\* sizeof(size_t) on the LP64 build
SIZEOF_SIZE_T == 8
\* values of an unsigned char: memset stores (unsigned char) of its argument
BYTE == 256

-----------------------------------------------------------------------------
(* Input lines, as the fields between DELIMITERs: label, name, value, ...  *)

LineA == <<"a", "x", "1">>
LineB == <<"b", "x", "-1">>
LineC == <<"a", "x", "1", "y", "400", "z", "0">>
LineE == <<"e", "x", "1">>
\* an even number of fields: a format error
LineM == <<"m", "x">>
\* every weight is zero: the vector stays empty
LineZ == <<"z", "y", "0">>

Lines == {LineA, LineB, LineC, LineE, LineM, LineZ}

RECURSIVE SeqsUpTo(_, _)
SeqsUpTo(S, n) ==
    IF n = 0 THEN {<<>>}
    ELSE LET shorter == SeqsUpTo(S, n - 1)
         IN shorter \cup {Append(s, x) : s \in {t \in shorter : Len(t) = n - 1}, x \in S}

Files == SeqsUpTo(Lines, MaxLines)

\* values of argv[1] after atoi
KRange == -1 .. (MaxLines + 1)

\* a file of points on a line on which the loop is slow to settle
SlowWeights == <<"1", "9", "15", "17", "19", "20", "21", "23", "25", "27", "60">>

SlowFile == [n \in 1..Len(SlowWeights) |-> <<"s", "x", SlowWeights[n]>>]

\* the runs of the model: what the command line names, and the schedule of
\* the parallel loop. "any": a thread may take any iteration not yet taken
\* (this covers every schedule); "dynamic": the iterations are handed out in
\* increasing order
Inputs ==
    [file : Files, K : KRange, schedule : {"any"}]
        \cup {[file |-> SlowFile, K |-> 2, schedule |-> "dynamic"]}

-----------------------------------------------------------------------------
(* Sparse vectors: [num |-> (VecKey -> Int), den |-> Nat \ {0}]; the weight *)
(* stored under key k is num[k] / den.                                     *)

EmptyMap == [k \in {} |-> 0]

EmptyVector == [num |-> EmptyMap, den |-> 1]

Get(m, k) == IF k \in DOMAIN m THEN m[k] ELSE 0

\* dense_hash_map::insert: an existing key keeps its value
Insert(m, k, x) ==
    IF k \in DOMAIN m THEN m
    ELSE [j \in DOMAIN m \cup {k} |-> IF j = k THEN x ELSE m[j]]

RECURSIVE SumOver(_, _)
SumOver(S, f) ==
    IF S = {} THEN 0
    ELSE LET k == CHOOSE x \in S : TRUE
         IN f[k] + SumOver(S \ {k}, f)

\* rationals [n, d] with d > 0
RatLess(p, q) == p.n * q.d < q.n * p.d
RatLeq(p, q) == p.n * q.d <= q.n * p.d

\* (val1 - val2)^2 over the common denominator (vec1.den * vec2.den)^2
SqDiff(vec1, vec2, k) ==
    LET t == Get(vec1.num, k) * vec2.den - Get(vec2.num, k) * vec1.den
    IN t * t

euclid_distance_squared(vec1, vec2) ==
    LET keys1 == DOMAIN vec1.num
        \* second loop: the keys of vec2 not marked in check
        keys2 == DOMAIN vec2.num \ keys1
        all == keys1 \cup keys2
        term == [k \in all |-> SqDiff(vec1, vec2, k)]
    IN [n |-> SumOver(keys1, term) + SumOver(keys2, term),
        d |-> (vec1.den * vec2.den) * (vec1.den * vec2.den)]

-----------------------------------------------------------------------------
(* size_t slots *)

Pow256(k) == IF k = 0 THEN 1 ELSE IF k = 1 THEN 256 ELSE 65536

\* the bytes of a value below 2^24
ToSizeT(n) ==
    [k \in 1..SIZEOF_SIZE_T |-> IF k <= 3 THEN (n \div Pow256(k - 1)) % BYTE ELSE 0]

\* memset(array, c, ...): every byte of every slot is (unsigned char) c
MemsetSlot(c) == [k \in 1..SIZEOF_SIZE_T |-> c % BYTE]

\* a slot whose value is below 2^24
IsSmall(s) == \A k \in 4..SIZEOF_SIZE_T : s[k] = 0

Val(s) == s[1] + 256 * s[2] + 65536 * s[3]

\* the slot holds an index 0 .. n-1
InRange(s, n) == IsSmall(s) /\ Val(s) < n

-----------------------------------------------------------------------------
(* read_vectors *)

\* atof, in weight units; a field that is no number converts to 0
Atof(s) ==
    CASE s = "1" -> 1
      [] s = "-1" -> -1
      [] s = "400" -> 400
      [] s = "9" -> 9
      [] s = "15" -> 15
      [] s = "17" -> 17
      [] s = "19" -> 19
      [] s = "20" -> 20
      [] s = "21" -> 21
      [] s = "23" -> 23
      [] s = "25" -> 25
      [] s = "27" -> 27
      [] s = "60" -> 60
      [] OTHER -> 0

\* the loop over the (name, value) pairs of one record; i is the C++ index
RECURSIVE ParsePairs(_, _, _, _, _)
ParsePairs(fields, i, km, ck, vec) ==
    IF i >= Len(fields) THEN [keymap |-> km, curkey |-> ck, vec |-> vec]
    ELSE LET name == fields[i + 1]
             known == name \in DOMAIN km
             key == IF known THEN km[name] ELSE ck
             km2 == IF known THEN km ELSE Insert(km, name, ck)
             ck2 == IF known THEN ck ELSE ck + 1
             point == Atof(fields[i + 2])
             vec2 == IF point # 0 THEN Insert(vec, key, point) ELSE vec
         IN ParsePairs(fields, i + 2, km2, ck2, vec2)

\* KMeans::add_vector; its assertion is guarded by the caller
add_vector_labels(label) ==
    [l \in DOMAIN labels_ \cup {label} |->
        IF l = label THEN Len(vectors_) ELSE labels_[l]]

add_vector_vectors(vec) == Append(vectors_, [num |-> vec, den |-> 1])

\* one pass of the while (getline(ifs, line)) loop
ReadLine ==
    /\ pc = "read"
    /\ file # <<>>
    /\ file' = Tail(file)
    /\ LET fields == splited \o Head(file)
       IN IF Len(fields) % 2 # 1
          THEN \* format error: continue, without splited.clear()
               /\ splited' = fields
               /\ UNCHANGED <<keymap, curkey, vectors_, labels_, added>>
          ELSE LET r == ParsePairs(fields, 1, keymap, curkey, EmptyMap)
               IN /\ keymap' = r.keymap
                  /\ curkey' = r.curkey
                  /\ splited' = <<>>
                  /\ IF fields[1] # "" /\ r.vec # EmptyMap
                     THEN /\ labels_' = add_vector_labels(fields[1])
                          /\ vectors_' = add_vector_vectors(r.vec)
                          /\ added' = Append(added, fields[1])
                     ELSE UNCHANGED <<vectors_, labels_, added>>
    /\ UNCHANGED <<pc, argK, schedule, centers_, nclusters, check, origin, closest_dist, potential,
                   assign, prev_assign, iter, todo, inflight, output, calls>>

-----------------------------------------------------------------------------
(* KMeans: the private helpers *)

N == Len(vectors_)

\* new Vector(*vectors_[idx]); idx is the C++ index
CopyOf(idx) == vectors_[idx + 1]

\* assign_clusters, the loop over the centers for one vector: j, min_idx are
\* C++ indices
RECURSIVE scan_centers(_, _, _, _, _)
scan_centers(vec, cs, j, min_idx, min_dist) ==
    IF j >= Len(cs) THEN min_idx
    ELSE LET dist == euclid_distance_squared(vec, cs[j + 1])
         IN IF RatLess(dist, min_dist)
            THEN scan_centers(vec, cs, j + 1, j, dist)
            ELSE scan_centers(vec, cs, j + 1, min_idx, min_dist)

nearest_center(vec, cs) == scan_centers(vec, cs, 0, 0, [n |-> LONG_DIST, d |-> 1])

\* the store with the index off by one: assign[i + 1] = min_idx, wrapping
write_slot_shifted(arr, i, min_idx) ==
    [arr EXCEPT ![((i + 1) % Len(arr)) + 1] = ToSizeT(min_idx)]

\* assign[i] = min_idx
write_slot(arr, i, min_idx) == [arr EXCEPT ![i + 1] = ToSizeT(min_idx)]

\* the accumulation with = in place of +=
accumulate_overwrite(cmap, vmap) ==
    [k \in DOMAIN cmap \cup DOMAIN vmap |->
        IF k \in DOMAIN vmap THEN vmap[k] ELSE cmap[k]]

\* move_centers, the accumulation of one vector into a center (find, then
\* += or insert)
accumulate(cmap, vmap) ==
    [k \in DOMAIN cmap \cup DOMAIN vmap |-> Get(cmap, k) + Get(vmap, k)]

\* move_centers, the loop over the vectors: sums and count after vectors
\* i .. N-1 were added (a: the assignment, as C++ indices)
RECURSIVE accumulate_all(_, _, _, _, _)
accumulate_all(vs, a, i, sums, count) ==
    IF i >= Len(vs) THEN [sums |-> sums, count |-> count]
    ELSE LET c == a[i + 1] + 1
         IN accumulate_all(vs, a, i + 1,
                [sums EXCEPT ![c] = accumulate(sums[c], vs[i + 1].num)],
                [count EXCEPT ![c] = count[c] + 1])

\* move_centers for an assignment whose entries index centers_
move_centers(cs, vs, a) ==
    LET cleared == [j \in 1..Len(cs) |-> EmptyMap]
        zero == [j \in 1..Len(cs) |-> 0]
        acc == accumulate_all(vs, a, 0, cleared, zero)
    IN [j \in 1..Len(cs) |->
          IF acc.count[j] = 0 THEN EmptyVector
          ELSE [num |-> acc.sums[j], den |-> acc.count[j]]]

RECURSIVE is_same_from(_, _, _, _)
is_same_from(array1, array2, size, i) ==
    IF i >= size THEN TRUE
    ELSE IF array1[i + 1] # array2[i + 1] THEN FALSE
    ELSE is_same_from(array1, array2, size, i + 1)

\* the comparison with its loop one element short
is_same_array_short(array1, array2, size) ==
    is_same_from(array1, array2, size - 1, 0)

is_same_array(array1, array2, size) == is_same_from(array1, array2, size, 0)

-----------------------------------------------------------------------------
(* main and KMeans::execute *)

\* assert(nclusters <= vectors_.size()) on the size_t made of atoi's int: a
\* negative int converts to 2^64 + K, above every size
assert_holds(K) == K >= 0 /\ K <= N

\* main calls execute with the file read to its end; the build keeps assert.
\* first is the initializer execute calls
ExecuteWith(first) ==
    /\ pc = "read"
    /\ file = <<>>
    /\ nclusters' = argK
    /\ pc' = IF assert_holds(argK) THEN first ELSE "assert_failed"
    /\ UNCHANGED <<argK, schedule, file, keymap, curkey, splited, vectors_, labels_, added, centers_,
                   check, origin, closest_dist, potential, assign, prev_assign,
                   iter, todo, inflight, output, calls>>

\* execute as compiled: choose_random_centers(nclusters)
Execute == ExecuteWith("choose_random")

\* execute with line 201 in place of line 200: choose_smart_centers(nclusters)
ExecuteSmart == ExecuteWith("choose_smart")

\* the draw accepted without a look at check
rejects_never(chk, idx) == FALSE

\* check.find(idx) != check.end(): idx was copied already
rejects(chk, idx) == idx \in chk

\* the values rand() % vectors_.size() may take at this call
draws == 0..(N - 1)

\* choose_random_centers: one pass of while (cnt < ncenters); idx is
\* rand() % vectors_.size()
ChooseRandom ==
    /\ pc = "choose_random"
    /\ Len(centers_) < nclusters
    /\ \E idx \in draws :
          IF rejects(check, idx)
          THEN UNCHANGED <<centers_, check, origin>>
          ELSE /\ centers_' = Append(centers_, CopyOf(idx))
               /\ check' = check \cup {idx}
               /\ origin' = Append(origin, idx)
    /\ UNCHANGED <<pc, argK, schedule, file, keymap, curkey, splited, vectors_, labels_, added,
                   nclusters, closest_dist, potential, assign, prev_assign,
                   iter, todo, inflight, output, calls>>

\* the scan for the index the draw falls on. randval and closest_dist[i] are
\* compared with both sides multiplied by RandMax: rv is randval * RandMax
RECURSIVE scan_potential(_, _, _)
scan_potential(cd, i, rv) ==
    IF i >= Len(cd) THEN 0
    ELSE IF rv <= cd[i + 1] * RandMax THEN i
    ELSE scan_potential(cd, i + 1, rv - cd[i + 1] * RandMax)

\* the distances of every vector to a center copied from the dataset (both
\* have denominator 1, and so has the distance)
dist_to(center) == [i \in 1..N |-> euclid_distance_squared(vectors_[i], center).n]

Min(a, b) == IF a > b THEN b ELSE a

\* choose_smart_centers, up to the while loop: the first center
SmartFirst ==
    /\ pc = "choose_smart"
    /\ N > 0
    /\ \E idx \in draws :
          /\ centers_' = <<CopyOf(idx)>>
          /\ origin' = <<idx>>
          /\ closest_dist' = dist_to(CopyOf(idx))
          /\ potential' = SumOver(1..N, dist_to(CopyOf(idx)))
    /\ pc' = "smart_loop"
    /\ UNCHANGED <<argK, schedule, file, keymap, curkey, splited, vectors_, labels_, added, nclusters,
                   check, assign, prev_assign, iter, todo, inflight, output,
                   calls>>

\* rand() % vectors_.size() with no vector: an integer division by zero,
\* which traps
SmartNoVectors ==
    /\ pc = "choose_smart"
    /\ N = 0
    /\ pc' = "crashed"
    /\ UNCHANGED <<argK, schedule, file, keymap, curkey, splited, vectors_, labels_, added, centers_,
                   nclusters, check, origin, closest_dist, potential, assign,
                   prev_assign, iter, todo, inflight, output, calls>>

\* choose_smart_centers: one pass of while (cnt < ncenters); r is rand()
SmartNext ==
    /\ pc = "smart_loop"
    /\ Len(centers_) < nclusters
    /\ \E r \in 0..RandMax :
          LET idx == scan_potential(closest_dist, 0, r * potential)
              dist == dist_to(CopyOf(idx))
              closest == [i \in 1..N |-> Min(closest_dist[i], dist[i])]
          IN /\ centers_' = Append(centers_, CopyOf(idx))
             /\ origin' = Append(origin, idx)
             /\ closest_dist' = closest
             /\ potential' = SumOver(1..N, closest)
    /\ UNCHANGED <<pc, argK, schedule, file, keymap, curkey, splited, vectors_, labels_, added,
                   nclusters, check, assign, prev_assign, iter, todo,
                   inflight, output, calls>>

\* the two memsets and the entry into the for loop
InitArrays ==
    /\ pc \in {"choose_random", "smart_loop"}
    /\ Len(centers_) >= nclusters
    /\ assign' = [i \in 1..N |-> MemsetSlot(nclusters)]
    /\ prev_assign' = [i \in 1..N |-> MemsetSlot(nclusters)]
    /\ iter' = 0
    /\ pc' = "loop"
    /\ UNCHANGED <<argK, schedule, file, keymap, curkey, splited, vectors_, labels_, added, centers_,
                   nclusters, check, origin, closest_dist, potential, todo, inflight,
                   output, calls>>

\* i < MAX_ITER, and the call of assign_clusters: the team starts on the
\* iterations 0 .. vsiz-1
LoopHead ==
    /\ pc = "loop"
    /\ IF iter < MAX_ITER
       THEN /\ pc' = "assign"
            /\ todo' = 0..(N - 1)
            /\ calls' = calls + 1
       ELSE /\ pc' = "output"
            /\ UNCHANGED <<todo, calls>>
    /\ UNCHANGED <<argK, schedule, file, keymap, curkey, splited, vectors_, labels_, added, centers_,
                   nclusters, check, origin, closest_dist, potential, assign,
                   prev_assign, iter, inflight, output>>

\* the iterations a free thread may be handed
takeable ==
    IF schedule = "dynamic" THEN {i \in todo : \A j \in todo : i <= j} ELSE todo

\* a thread takes iteration i and runs the loop over the centers
WorkerScan ==
    /\ pc = "assign"
    /\ Cardinality(inflight) < NumThreads
    /\ \E i \in takeable :
          /\ todo' = todo \ {i}
          /\ inflight' = inflight \cup
                {[i |-> i, min_idx |-> nearest_center(vectors_[i + 1], centers_)]}
    /\ UNCHANGED <<pc, argK, schedule, file, keymap, curkey, splited, vectors_, labels_, added,
                   centers_, nclusters, check, origin, closest_dist, potential, assign,
                   prev_assign, iter, output, calls>>

\* that thread stores its result
WorkerWrite ==
    /\ pc = "assign"
    /\ \E w \in inflight :
          /\ assign' = write_slot(assign, w.i, w.min_idx)
          /\ inflight' = inflight \ {w}
    /\ UNCHANGED <<pc, argK, schedule, file, keymap, curkey, splited, vectors_, labels_, added,
                   centers_, nclusters, check, origin, closest_dist, potential,
                   prev_assign, iter, todo, output, calls>>

\* the barrier that ends the parallel loop
Barrier ==
    /\ pc = "assign"
    /\ todo = {}
    /\ inflight = {}
    /\ pc' = "move"
    /\ UNCHANGED <<argK, schedule, file, keymap, curkey, splited, vectors_, labels_, added, centers_,
                   nclusters, check, origin, closest_dist, potential, assign,
                   prev_assign, iter, todo, inflight, output, calls>>

\* every assign[i] indexes centers_
assign_in_bounds == \A i \in 1..N : InRange(assign[i], Len(centers_))

\* the call of move_centers
MoveCenters ==
    /\ pc = "move"
    /\ assign_in_bounds
    /\ centers_' = move_centers(centers_, vectors_, [i \in 1..N |-> Val(assign[i])])
    /\ pc' = "check"
    /\ UNCHANGED <<argK, schedule, file, keymap, curkey, splited, vectors_, labels_, added, nclusters,
                   check, origin, closest_dist, potential, assign, prev_assign, iter,
                   todo, inflight, output, calls>>

\* move_centers with an assign[i] past the end of centers_ (and of count):
\* undefined behaviour. The process dies, or the stray accesses land outside
\* the engine's objects and the call returns.
MoveCentersOutOfBounds ==
    /\ pc = "move"
    /\ ~assign_in_bounds
    /\ \/ pc' = "crashed"
       \/ pc' = "check"
    /\ UNCHANGED <<argK, schedule, file, keymap, curkey, splited, vectors_, labels_, added, centers_,
                   nclusters, check, origin, closest_dist, potential, assign,
                   prev_assign, iter, todo, inflight, output, calls>>

\* is_same_array, then break, or std::copy and ++i
CheckSame ==
    /\ pc = "check"
    /\ IF is_same_array(assign, prev_assign, N)
       THEN /\ pc' = "output"
            /\ UNCHANGED <<prev_assign, iter>>
       ELSE /\ prev_assign' = assign
            /\ iter' = iter + 1
            /\ pc' = "loop"
    /\ UNCHANGED <<argK, schedule, file, keymap, curkey, splited, vectors_, labels_, added, centers_,
                   nclusters, check, origin, closest_dist, potential, assign, todo,
                   inflight, output, calls>>

\* the sequences that hold every element of S once
RECURSIVE Orders(_)
Orders(S) ==
    IF S = {} THEN {<<>>}
    ELSE UNION {{<<x>> \o o : o \in Orders(S \ {x})} : x \in S}

\* the loop over labels_ that prints the result; a dense_hash_map iterates in
\* the order of its buckets, which is any order as far as the program goes
ShowResult ==
    /\ pc = "output"
    /\ \E order \in Orders(DOMAIN labels_) :
          output' = [n \in 1..Len(order) |->
                        <<order[n], assign[labels_[order[n]] + 1]>>]
    /\ pc' = "done"
    /\ UNCHANGED <<argK, schedule, file, keymap, curkey, splited, vectors_, labels_, added, centers_,
                   nclusters, check, origin, closest_dist, potential, assign,
                   prev_assign, iter, todo, inflight, calls>>

-----------------------------------------------------------------------------

Init ==
    /\ pc = "read"
    /\ \E in \in Inputs :
          /\ file = in.file
          /\ argK = in.K
          /\ schedule = in.schedule
    /\ keymap = [s \in {} |-> 0]
    /\ curkey = EMPTY_KEY + 1
    /\ splited = <<>>
    /\ vectors_ = <<>>
    /\ labels_ = [s \in {} |-> 0]
    /\ added = <<>>
    /\ centers_ = <<>>
    /\ nclusters = 0
    /\ check = {}
    /\ origin = <<>>
    /\ closest_dist = <<>>
    /\ potential = 0
    /\ assign = <<>>
    /\ prev_assign = <<>>
    /\ iter = 0
    /\ todo = {}
    /\ inflight = {}
    /\ output = <<>>
    /\ calls = 0

Next ==
    \/ ReadLine
    \/ Execute
    \/ ChooseRandom
    \/ InitArrays
    \/ LoopHead
    \/ WorkerScan
    \/ WorkerWrite
    \/ Barrier
    \/ MoveCenters
    \/ MoveCentersOutOfBounds
    \/ CheckSame
    \/ ShowResult

Spec == Init /\ [][Next]_vars

\* the program with choose_smart_centers as its initializer
NextSmart ==
    \/ ReadLine
    \/ ExecuteSmart
    \/ SmartFirst
    \/ SmartNoVectors
    \/ SmartNext
    \/ InitArrays
    \/ LoopHead
    \/ WorkerScan
    \/ WorkerWrite
    \/ Barrier
    \/ MoveCenters
    \/ CheckSame
    \/ ShowResult

SpecSmart == Init /\ [][NextSmart]_vars

\* the steps of execute's loop; the main thread and the threads of the team
\* keep running
LoopStep ==
    LoopHead \/ WorkerScan \/ WorkerWrite \/ Barrier \/ MoveCenters \/ CheckSame

SpecFair == Spec /\ WF_vars(LoopStep)

-----------------------------------------------------------------------------
(* The properties checked *)

\* no element occurs twice in the sequence
NoRepeat(q) == \A a, b \in 1..Len(q) : a # b => q[a] # q[b]

\* the dataset is complete and execute has accepted K, which is in 1 .. |Dataset|
ValidRun == pc \notin {"read", "assert_failed"} /\ nclusters \in 1..N

\* the value the program prints for a slot
Cluster(i) == Val(assign[i])

\* C1: an initializer copies no dataset index twice, and leaves exactly K
\* centers behind once it has returned (pc = "loop": the memsets are done)
C1_DistinctOrigins ==
    /\ NoRepeat(origin)
    /\ (pc = "loop" /\ ValidRun) => Len(centers_) = nclusters /\ Len(origin) = nclusters

\* C2: assign_clusters is called at most MAX_ITER + 1 times; a run with a
\* valid K that has left the loop has left it with assign equal to
\* prev_assign or with the loop variable at MAX_ITER; and such a run, once in
\* the loop, does leave it
C2_Bounded ==
    /\ calls <= MAX_ITER + 1
    /\ (pc \in {"output", "done"} /\ ValidRun) =>
          assign = prev_assign \/ iter = MAX_ITER

C2_LoopTerminates ==
    /\ []C2_Bounded
    /\ (pc = "loop" /\ ValidRun) ~> (pc = "output")

\* C2 witness: a run with a valid K has left the loop at the cap, after
\* MAX_ITER calls
C2_Witness ==
    /\ pc = "output"
    /\ ValidRun
    /\ iter = MAX_ITER
    /\ calls = MAX_ITER

\* C3: with an invalid configuration (K > |Dataset|, K <= 0, or no vector at
\* all) execute fails before it initializes: no center is chosen,
\* assign_clusters and move_centers are never called, nothing is printed
InvalidConfiguration == file = <<>> /\ (argK > N \/ argK <= 0 \/ N = 0)

C3_InvalidFailsFast ==
    InvalidConfiguration =>
        /\ centers_ = <<>>
        /\ calls = 0
        /\ pc \notin {"move", "check", "output", "done"}
        /\ output = <<>>

\* C4: the output of a finished run has one (label, cluster) pair per dataset
\* entry, in the order of the add_vector calls, the i-th with assign[i]
C4_OutputInDatasetOrder ==
    (pc = "done" /\ ValidRun) =>
        /\ Len(output) = N
        /\ \A i \in 1..N : output[i] = <<added[i], assign[i]>>

\* the squared distance of dataset vector i (1-based) to center j (0-based)
DistTo(i, j) == euclid_distance_squared(vectors_[i], centers_[j + 1])

\* j is the lowest index among the centers nearest to vector i
LowestArgmin(i, j) ==
    /\ j \in 0..(Len(centers_) - 1)
    /\ \A k \in 0..(Len(centers_) - 1) :
          /\ RatLeq(DistTo(i, j), DistTo(i, k))
          /\ k < j => RatLess(DistTo(i, j), DistTo(i, k))

\* C5: when assign_clusters has returned (pc = "move") with a non-empty
\* center set, every assign[i] is the lowest index of a nearest center
C5_AssignIsLowestArgmin ==
    (pc = "move" /\ centers_ # <<>>) =>
        \A i \in 1..N : IsSmall(assign[i]) /\ LowestArgmin(i, Cluster(i))

\* what a sequential run of the loop of assign_clusters stores
SequentialScan == [i \in 1..N |-> ToSizeT(nearest_center(vectors_[i], centers_))]

\* C6: in every step taken inside assign_clusters (pc = "assign"), the
\* dataset and the centers stay as they are, a slot of assign changes only if
\* it is the slot of the iteration whose thread stores its result in this
\* step, and at the barrier assign is what a sequential scan stores
C6_ParallelAssign ==
    [][pc = "assign" =>
        /\ vectors_' = vectors_
        /\ centers_' = centers_
        /\ \A k \in 1..N :
              assign'[k] # assign[k] =>
                  \E w \in inflight : w.i = k - 1 /\ inflight' = inflight \ {w}
        /\ pc' = "move" => assign' = SequentialScan']_vars

\* C6 witness: a second call of assign_clusters, on three vectors, has passed
\* its barrier with an assignment other than the previous one
C6_Witness ==
    /\ pc = "move"
    /\ iter >= 1
    /\ N >= 3
    /\ assign # prev_assign
    /\ schedule = "any"

\* the dataset indices (1-based) assigned to center j (1-based)
Members(a, j) == {i \in 1..N : Val(a[i]) = j - 1}

\* the sum over the vectors in M of their weight under key k
RECURSIVE WeightSum(_, _)
WeightSum(M, k) ==
    IF M = {} THEN 0
    ELSE LET i == CHOOSE x \in M : TRUE
         IN Get(vectors_[i].num, k) + WeightSum(M \ {i}, k)

\* center c is the mean of the vectors in M (empty when M is)
IsMeanOf(c, M) ==
    IF M = {} THEN c.num = EmptyMap
    ELSE /\ DOMAIN c.num = UNION {DOMAIN vectors_[i].num : i \in M}
         /\ \A k \in DOMAIN c.num :
               c.num[k] * Cardinality(M) = c.den * WeightSum(M, k)

\* C7: a call of move_centers with an assignment that indexes centers_
\* returns (no error) with as many centers as before, the dataset untouched,
\* and every center the mean of the vectors assigned to it: exactly their
\* keys, each with sum / count; the empty vector if there is none
C7_UpdateIsMean ==
    [][(pc = "move" /\ assign_in_bounds) =>
        /\ pc' = "check"
        /\ vectors_' = vectors_
        /\ assign' = assign
        /\ Len(centers_') = Len(centers_)
        /\ \A j \in 1..Len(centers_) : IsMeanOf(centers_'[j], Members(assign, j))]_vars

\* C7 witness: move_centers has returned with a center that averages two
\* vectors with different keys and a center with no vector
C7_Witness ==
    /\ pc = "check"
    /\ \E j, d \in 1..Len(centers_) :
          /\ Cardinality(Members(assign, d)) = 0
          /\ centers_[d] = EmptyVector
          /\ \E i1, i2 \in Members(assign, j) :
                DOMAIN vectors_[i1].num # DOMAIN vectors_[i2].num

\* the final assignment gives no two dataset points the same center
OnePointPerCenter ==
    /\ \A i \in 1..N : InRange(assign[i], nclusters)
    /\ \A i1, i2 \in 1..N : i1 # i2 => assign[i1] # assign[i2]

\* the loop was left by the break
Converged == iter < MAX_ITER /\ assign = prev_assign

\* C8 as claimed: with K = |Dataset| (and the labels all different) every
\* finished run has converged with every point on a center of its own
C8_AsClaimed ==
    (pc = "done" /\ ValidRun /\ nclusters = N /\ NoRepeat(added)) =>
        Converged /\ OnePointPerCenter

\* every two dataset vectors are at a squared distance above zero
PairwiseApart ==
    \A i1, i2 \in 1..N :
        i1 # i2 => euclid_distance_squared(vectors_[i1], vectors_[i2]).n > 0

\* C8 (amended): with K = |Dataset| and the dataset vectors pairwise at a
\* non-zero squared distance, a finished run has left the loop by the break in
\* its second pass (the first pass's assignment confirmed), every point is
\* assigned to the center copied from it, which still equals it, and no two
\* points share a center
C8_ApartPointsOwnCenter ==
    (pc = "done" /\ ValidRun /\ nclusters = N /\ PairwiseApart) =>
        /\ Converged
        /\ iter = 1
        /\ calls = 2
        /\ OnePointPerCenter
        /\ \A i \in 1..N :
              /\ origin[Cluster(i) + 1] = i - 1
              /\ centers_[Cluster(i) + 1] = vectors_[i]

\* C8 witness: such a run on three vectors has finished
C8_Witness ==
    pc = "done" /\ ValidRun /\ nclusters = N /\ N = 3 /\ PairwiseApart

\* C9: for every K execute accepts, the memset leaves in every slot of
\* prev_assign a value outside 0 .. K-1, and the comparison of the first pass
\* (iter = 0) never finds assign equal to prev_assign
C9_SentinelNeverMatches ==
    /\ (pc = "loop" /\ iter = 0) =>
          \A i \in 1..N : ~InRange(prev_assign[i], nclusters)
    /\ (pc = "check" /\ iter = 0) => ~is_same_array(assign, prev_assign, N)

\* no zero weight is stored in the vector
NoZeroStored(v) == \A k \in DOMAIN v.num : v.num[k] # 0

\* C10: no vector of the engine, dataset vector or center, ever stores a
\* zero weight
C10_NoZeroWeightStored ==
    /\ \A i \in 1..N : NoZeroStored(vectors_[i])
    /\ \A j \in 1..Len(centers_) : NoZeroStored(centers_[j])

====
